---- MODULE Spec2Model ----
(***************************************************************************)
(* Model of utils/p4runtime_lib/switch.py: the P4Runtime switch connection *)
(* (SwitchConnection), its inbound StreamDispatcher, the closeable         *)
(* outbound IterableQueue and the module-level connection registry.        *)
(***************************************************************************)
EXTENDS Integers, Sequences, FiniteSets, TLC

\* ------------------------------------------------------------------ bounds
MaxConns == 3        \* connections that may be constructed
MaxInbound == 3      \* messages the inbound stream delivers per connection
MaxOps == 2          \* operations each caller thread invokes
MaxMeta == 2         \* metadata fields per PacketOut call
MaxOutOps == 4       \* operations invoked where the outbound queue is the subject
MaxOpsInbound == 2   \* inbound messages where every operation is exercised
MaxResponses == 2    \* responses the transport streams back to one Read

Conns == 1..MaxConns
Threads == {"t1", "t2"}

\* The oneof "update" of p4runtime StreamMessageResponse; "none" is a message
\* with no variant populated (WhichOneof returns None).
Variants == {"arbitration", "packet", "idle_timeout_notification", "error", "none"}
QueueNames == {"arbitration_queue", "packet_in_queue", "timeout_queue", "error_queue"}

VARIABLES
    connections,      \* the module-level list `connections`
    shutdown_raises,  \* per connection: its shutdown(), as overridden by the
                      \* subclass of the abstract SwitchConnection, raises
    requests_stream,  \* per connection: items held by the IterableQueue
    enqueued,         \* history: every item ever put on requests_stream
    out_iter,         \* per connection: state of iter(self.requests_stream)
    sent,             \* per connection: requests yielded to the transport
    stream,           \* per connection: inbound stream (status, messages so far)
    running,          \* per connection: dispatcher.running
    loop,             \* per connection: position of the dispatch thread
    queues,           \* per connection: the four delivery queues
    taken,            \* history: payloads removed from each delivery queue
    calls,            \* per connection: unary transport calls issued
    thread            \* caller threads

vars == <<connections, shutdown_raises, requests_stream, enqueued, out_iter,
          sent, stream, running, loop, queues, taken, calls, thread>>

\* ------------------------------------------------------------- data values
Sentinel == [type |-> "_sentinel"]

NoMsg == [which |-> "none", payload |-> 0]

\* p4runtime_pb2.StreamMessageRequest with the arbitration field set
ArbitrationRequest(device_id) ==
    [type |-> "arbitration", device_id |-> device_id,
     election_id |-> [high |-> 0, low |-> 1]]

NoRet == [tag |-> "none", val |-> 0]
RetNone == [tag |-> "None", val |-> 0]
RetValue(v) == [tag |-> "value", val |-> v]
RetGenerator == [tag |-> "generator", val |-> 0]
Raise(exc) == [tag |-> exc, val |-> 0]

\* The generator object a caller holds: "none" when it holds none, "created"
\* before its first next(), "suspended" at a yield, "done" after it returned
\* or raised.
NoGen == [state |-> "none", op |-> "", conn |-> 0, dry_run |-> FALSE,
          kind |-> "", yielded |-> 0, printed |-> FALSE]

IdleThread == [pc |-> "idle", op |-> "", dry_run |-> FALSE, conn |-> 0,
               arg |-> <<>>, ret |-> NoRet, n |-> 0, gen |-> NoGen]

Range(s) == {s[i] : i \in 1..Len(s)}

RECURSIVE SelectPayloads(_, _)
\* payloads of the messages of `msgs` whose populated variant is `which`
SelectPayloads(msgs, which) ==
    IF msgs = <<>> THEN <<>>
    ELSE LET rest == SelectPayloads(Tail(msgs), which)
         IN IF Head(msgs).which = which THEN <<Head(msgs).payload>> \o rest
            ELSE rest

EmptyQueues == [q \in QueueNames |-> <<>>]

\* ------------------------------------------------------------ construction
\* StreamDispatcher.__init__ without self.thread.start()
StreamDispatcherNotStarted(c) ==
    /\ running' = [running EXCEPT ![c] = TRUE]
    /\ queues' = [queues EXCEPT ![c] = EmptyQueues]
    /\ loop' = loop

\* StreamDispatcher.__init__
StreamDispatcher(c) ==
    /\ running' = [running EXCEPT ![c] = TRUE]
    /\ queues' = [queues EXCEPT ![c] = EmptyQueues]
    /\ loop' = [loop EXCEPT ![c] = [pc |-> "next", msg |-> NoMsg]]

\* The state in which the connections of `reg` have been constructed, in
\* that order, and nothing else has happened.
Constructed(reg) ==
    /\ connections = reg
    /\ shutdown_raises = [c \in Conns |-> FALSE]
    /\ requests_stream = [c \in Conns |-> <<>>]
    /\ enqueued = [c \in Conns |-> <<>>]
    /\ out_iter = [c \in Conns |-> IF c \in Range(reg) THEN "active" ELSE "unborn"]
    /\ sent = [c \in Conns |-> <<>>]
    /\ stream = [c \in Conns |->
                   [status |-> IF c \in Range(reg) THEN "open" ELSE "unborn",
                    msgs |-> <<>>]]
    /\ running = [c \in Conns |-> c \in Range(reg)]
    /\ loop = [c \in Conns |->
                 [pc |-> IF c \in Range(reg) THEN "next" ELSE "unborn",
                  msg |-> NoMsg]]
    /\ queues = [c \in Conns |-> EmptyQueues]
    /\ taken = [c \in Conns |-> EmptyQueues]
    /\ calls = [c \in Conns |-> <<>>]
    /\ thread = [t \in Threads |-> IdleThread]

\* The constructor of connection c has built its queue, channel and dispatcher.
Built(c) == stream[c].status # "unborn"

\* SwitchConnection.__init__ up to `self.dispatcher = StreamDispatcher(...)`:
\* the dispatch thread runs from here on, before the connection is registered.
SwitchConnection(c, raises) ==
    /\ ~Built(c)
    /\ \A b \in 1..(c - 1) : Built(b)
    /\ out_iter' = [out_iter EXCEPT ![c] = "active"]
    /\ stream' = [stream EXCEPT ![c] = [status |-> "open", msgs |-> <<>>]]
    /\ StreamDispatcher(c)
    /\ shutdown_raises' = [shutdown_raises EXCEPT ![c] = raises]
    /\ UNCHANGED <<connections, requests_stream, enqueued, sent, taken, calls,
                   thread>>

\* SwitchConnection.__init__, its last statement: connections.append(self);
\* the constructor returns and callers hold the connection.
SwitchConnection_append(c) ==
    /\ Built(c)
    /\ c \notin Range(connections)
    /\ connections' = Append(connections, c)
    /\ UNCHANGED <<shutdown_raises, requests_stream, enqueued, out_iter, sent,
                   stream, running, loop, queues, taken, calls, thread>>

\* ------------------------------------------------- IterableQueue (outbound)
\* Queue.put on the unbounded requests_stream
IterableQueue_put(c, item) ==
    /\ requests_stream' = [requests_stream EXCEPT ![c] = Append(@, item)]
    /\ enqueued' = [enqueued EXCEPT ![c] = Append(@, item)]

\* IterStep that hands the sentinel to the transport before stopping
IterStepYieldingSentinel(item, yielded) ==
    [state |-> IF item = Sentinel THEN "exhausted" ELSE "active",
     yielded |-> Append(yielded, item)]

\* What one step of iter(self.get, self._sentinel) does with the item that
\* get() returned: stop at the sentinel, yield anything else.
IterStep(item, yielded) ==
    IF item = Sentinel
    THEN [state |-> "exhausted", yielded |-> yielded]
    ELSE [state |-> "active", yielded |-> Append(yielded, item)]

\* IterableQueue_next on an iterator that goes on after the sentinel
IterableQueue_next_resuming(c) ==
    /\ out_iter[c] \in {"active", "exhausted"}
    /\ requests_stream[c] # <<>>
    /\ LET r == IterStep(Head(requests_stream[c]), sent[c])
       IN /\ out_iter' = [out_iter EXCEPT ![c] = r.state]
          /\ sent' = [sent EXCEPT ![c] = r.yielded]
    /\ requests_stream' = [requests_stream EXCEPT ![c] = Tail(@)]
    /\ UNCHANGED <<connections, shutdown_raises, enqueued, stream, running,
                   loop, queues, taken, calls, thread>>

\* The transport pulls the next outbound request: next(iter(requests_stream)).
\* get() blocks while the queue is empty; an exhausted iterator is never
\* resumed.
IterableQueue_next(c) ==
    /\ out_iter[c] = "active"
    /\ requests_stream[c] # <<>>
    /\ LET r == IterStep(Head(requests_stream[c]), sent[c])
       IN /\ out_iter' = [out_iter EXCEPT ![c] = r.state]
          /\ sent' = [sent EXCEPT ![c] = r.yielded]
    /\ requests_stream' = [requests_stream EXCEPT ![c] = Tail(@)]
    /\ UNCHANGED <<connections, shutdown_raises, enqueued, stream, running,
                   loop, queues, taken, calls, thread>>

\* ------------------------------------------------------- StreamDispatcher
HasField(msg, field) == msg.which = field

\* Route with the packet branch putting on the arbitration queue
RoutePacketToArbitration(qs, msg) ==
    IF HasField(msg, "arbitration") \/ HasField(msg, "packet")
    THEN [qs EXCEPT !["arbitration_queue"] = Append(@, msg.payload)]
    ELSE IF HasField(msg, "idle_timeout_notification")
    THEN [qs EXCEPT !["timeout_queue"] = Append(@, msg.payload)]
    ELSE IF HasField(msg, "error")
    THEN [qs EXCEPT !["error_queue"] = Append(@, msg.payload)]
    ELSE qs

\* Route with the final else queueing the unknown message as an error
RouteUnknownAsError(qs, msg) ==
    IF HasField(msg, "arbitration")
    THEN [qs EXCEPT !["arbitration_queue"] = Append(@, msg.payload)]
    ELSE IF HasField(msg, "packet")
    THEN [qs EXCEPT !["packet_in_queue"] = Append(@, msg.payload)]
    ELSE IF HasField(msg, "idle_timeout_notification")
    THEN [qs EXCEPT !["timeout_queue"] = Append(@, msg.payload)]
    ELSE [qs EXCEPT !["error_queue"] = Append(@, msg.payload)]

\* Route with the error branch putting the error on every delivery queue
RouteErrorWakesCallers(qs, msg) ==
    IF HasField(msg, "arbitration")
    THEN [qs EXCEPT !["arbitration_queue"] = Append(@, msg.payload)]
    ELSE IF HasField(msg, "packet")
    THEN [qs EXCEPT !["packet_in_queue"] = Append(@, msg.payload)]
    ELSE IF HasField(msg, "idle_timeout_notification")
    THEN [qs EXCEPT !["timeout_queue"] = Append(@, msg.payload)]
    ELSE IF HasField(msg, "error")
    THEN [q \in QueueNames |-> Append(qs[q], msg.payload)]
    ELSE qs

\* The if/elif chain of _dispatch_loop: the delivery queues after `msg`.
Route(qs, msg) ==
    IF HasField(msg, "arbitration")
    THEN [qs EXCEPT !["arbitration_queue"] = Append(@, msg.payload)]
    ELSE IF HasField(msg, "packet")
    THEN [qs EXCEPT !["packet_in_queue"] = Append(@, msg.payload)]
    ELSE IF HasField(msg, "idle_timeout_notification")
    THEN [qs EXCEPT !["timeout_queue"] = Append(@, msg.payload)]
    ELSE IF HasField(msg, "error")
    THEN [qs EXCEPT !["error_queue"] = Append(@, msg.payload)]
    ELSE qs   \* print("Unknown StreamMessageResponse:", msg)

\* `for msg in self.stream`: the stream yields its next message.  The
\* payload is the message's position on the stream, so payloads are distinct.
dispatch_loop_next(c, which) ==
    /\ loop[c].pc = "next"
    /\ stream[c].status = "open"
    /\ LET msg == [which |-> which, payload |-> Len(stream[c].msgs) + 1]
       IN /\ stream' = [stream EXCEPT ![c].msgs = Append(@, msg)]
          /\ loop' = [loop EXCEPT ![c] = [pc |-> "check", msg |-> msg]]
    /\ UNCHANGED <<connections, shutdown_raises, requests_stream, enqueued,
                   out_iter, sent, running, queues, taken, calls, thread>>

\* dispatch_loop_end that wakes the callers by pushing an end marker onto
\* every delivery queue
dispatch_loop_end_waking(c) ==
    /\ loop[c].pc = "next"
    /\ stream[c].status = "open"
    /\ stream' = [stream EXCEPT ![c].status = "ended"]
    /\ loop' = [loop EXCEPT ![c] = [pc |-> "exited", msg |-> NoMsg]]
    /\ queues' = [queues EXCEPT ![c] = [q \in QueueNames |-> Append(@[q], 0)]]
    /\ UNCHANGED <<connections, shutdown_raises, requests_stream, enqueued,
                   out_iter, sent, running, taken, calls, thread>>

\* `for msg in self.stream`: the stream is exhausted (StopIteration); the
\* for statement ends and _dispatch_loop returns.
dispatch_loop_end(c) ==
    /\ loop[c].pc = "next"
    /\ stream[c].status = "open"
    /\ stream' = [stream EXCEPT ![c].status = "ended"]
    /\ loop' = [loop EXCEPT ![c] = [pc |-> "exited", msg |-> NoMsg]]
    /\ UNCHANGED <<connections, shutdown_raises, requests_stream, enqueued,
                   out_iter, sent, running, queues, taken, calls, thread>>

\* Where an exception raised by next(self.stream) leaves the dispatch thread:
\* _dispatch_loop has no try/except, so it leaves the thread's target.
OnStreamError == "crashed"

\* `for msg in self.stream`: the transport's iteration raises (grpc.RpcError).
dispatch_loop_raise(c) ==
    /\ loop[c].pc = "next"
    /\ stream[c].status = "open"
    /\ stream' = [stream EXCEPT ![c].status = "raised"]
    /\ loop' = [loop EXCEPT ![c] = [pc |-> OnStreamError, msg |-> NoMsg]]
    /\ UNCHANGED <<connections, shutdown_raises, requests_stream, enqueued,
                   out_iter, sent, running, queues, taken, calls, thread>>

\* dispatch_loop_check without the test of self.running
dispatch_loop_check_ignoring_stop(c) ==
    /\ loop[c].pc = "check"
    /\ loop' = [loop EXCEPT ![c] = [pc |-> "route", msg |-> loop[c].msg]]
    /\ UNCHANGED <<connections, shutdown_raises, requests_stream, enqueued,
                   out_iter, sent, stream, running, queues, taken, calls,
                   thread>>

\* `if not self.running: break`
dispatch_loop_check(c) ==
    /\ loop[c].pc = "check"
    /\ loop' = [loop EXCEPT ![c] =
                  IF ~running[c] THEN [pc |-> "exited", msg |-> NoMsg]
                  ELSE [pc |-> "route", msg |-> loop[c].msg]]
    /\ UNCHANGED <<connections, shutdown_raises, requests_stream, enqueued,
                   out_iter, sent, stream, running, queues, taken, calls,
                   thread>>

\* the HasField chain and the put on the matching queue
dispatch_loop_route(c) ==
    /\ loop[c].pc = "route"
    /\ queues' = [queues EXCEPT ![c] = Route(@, loop[c].msg)]
    /\ loop' = [loop EXCEPT ![c] = [pc |-> "next", msg |-> NoMsg]]
    /\ UNCHANGED <<connections, shutdown_raises, requests_stream, enqueued,
                   out_iter, sent, stream, running, taken, calls, thread>>

\* ------------------------------------------------------ caller operations
\* A caller thread `t` invokes an operation.
Invoke(t, c, op, dry_run, arg) ==
    [thread[t] EXCEPT !.op = op, !.dry_run = dry_run, !.conn = c,
                      !.arg = arg, !.ret = NoRet, !.n = @ + 1]

Return(rec, ret) == [rec EXCEPT !.pc = "idle", !.ret = ret]

\* The thread blocks in Queue.get on the delivery queue.
BlockOn(rec, q) == [rec EXCEPT !.pc = q]

Idle(t, c) == thread[t].pc = "idle" /\ c \in Range(connections)

\* Queue_get that hands out the oldest payload and leaves it on the queue
Queue_peek(c, q) ==
    /\ queues[c][q] # <<>>
    /\ queues' = queues
    /\ taken' = [taken EXCEPT ![c][q] = Append(@, Head(queues[c][q]))]

\* Queue.get completes: the oldest payload leaves queue `q` of connection c.
Queue_get(c, q) ==
    /\ queues[c][q] # <<>>
    /\ queues' = [queues EXCEPT ![c][q] = Tail(@)]
    /\ taken' = [taken EXCEPT ![c][q] = Append(@, Head(queues[c][q]))]

\* MasterArbitrationUpdate pulling from the packet-in queue
ArbitrationFromPacketIn == "packet_in_queue"

\* The queue MasterArbitrationUpdate pulls its answer from.
ArbitrationSource == "arbitration_queue"

\* SwitchConnection.MasterArbitrationUpdate, up to the blocking get
MasterArbitrationUpdate(t, c, dry_run) ==
    /\ Idle(t, c)
    /\ LET inv == Invoke(t, c, "MasterArbitrationUpdate", dry_run, <<>>)
       IN IF dry_run
          THEN /\ thread' = [thread EXCEPT ![t] = Return(inv, RetNone)]
               /\ UNCHANGED <<requests_stream, enqueued>>
          ELSE /\ IterableQueue_put(c, ArbitrationRequest(c))
               /\ thread' = [thread EXCEPT ![t] = BlockOn(inv, ArbitrationSource)]
    /\ UNCHANGED <<connections, shutdown_raises, out_iter, sent, stream,
                   running, loop, queues, taken, calls>>

\* MasterArbitrationUpdate: arbitration_queue.get() returns
MasterArbitrationUpdate_return(t) ==
    /\ thread[t].op = "MasterArbitrationUpdate"
    /\ thread[t].pc \in QueueNames
    /\ LET c == thread[t].conn
           q == thread[t].pc
       IN /\ Queue_get(c, q)
          /\ thread' = [thread EXCEPT ![t] = Return(@, RetValue(Head(queues[c][q])))]
    /\ UNCHANGED <<connections, shutdown_raises, requests_stream, enqueued,
                   out_iter, sent, stream, running, loop, calls>>

\* PacketIn pulling from the idle-timeout queue
PacketInFromTimeout == "timeout_queue"

\* The queue PacketIn pulls from.
PacketInSource == "packet_in_queue"

\* SwitchConnection.PacketIn, up to the blocking get: the get precedes the
\* test of dry_run.
PacketIn(t, c, dry_run) ==
    /\ Idle(t, c)
    /\ thread' = [thread EXCEPT ![t] =
                    BlockOn(Invoke(t, c, "PacketIn", dry_run, <<>>), PacketInSource)]
    /\ UNCHANGED <<connections, shutdown_raises, requests_stream, enqueued,
                   out_iter, sent, stream, running, loop, queues, taken, calls>>

\* PacketIn: packet_in_queue.get() returns; dry_run prints and returns None
PacketIn_return(t) ==
    /\ thread[t].op = "PacketIn"
    /\ thread[t].pc \in QueueNames
    /\ LET c == thread[t].conn
           q == thread[t].pc
           request == Head(queues[c][q])
       IN /\ Queue_get(c, q)
          /\ thread' = [thread EXCEPT ![t] =
                          Return(@, IF thread[t].dry_run THEN RetNone
                                    ELSE RetValue(request))]
    /\ UNCHANGED <<connections, shutdown_raises, requests_stream, enqueued,
                   out_iter, sent, stream, running, loop, calls>>

\* SwitchConnection.IdleTimeoutNotification, up to the blocking get
IdleTimeoutNotification(t, c, dry_run) ==
    /\ Idle(t, c)
    /\ thread' = [thread EXCEPT ![t] =
                    BlockOn(Invoke(t, c, "IdleTimeoutNotification", dry_run, <<>>),
                            "timeout_queue")]
    /\ UNCHANGED <<connections, shutdown_raises, requests_stream, enqueued,
                   out_iter, sent, stream, running, loop, queues, taken, calls>>

\* IdleTimeoutNotification: timeout_queue.get() returns
IdleTimeoutNotification_return(t) ==
    /\ thread[t].op = "IdleTimeoutNotification"
    /\ thread[t].pc \in QueueNames
    /\ LET c == thread[t].conn
           q == thread[t].pc
           msg == Head(queues[c][q])
       IN /\ Queue_get(c, q)
          /\ thread' = [thread EXCEPT ![t] =
                          Return(@, IF thread[t].dry_run THEN RetNone
                                    ELSE RetValue(msg))]
    /\ UNCHANGED <<connections, shutdown_raises, requests_stream, enqueued,
                   out_iter, sent, stream, running, loop, calls>>

\* ------------------------------------------------------------- PacketOut
RECURSIVE BigEndian(_, _)
\* the `length` low-order base-256 digits of v, most significant first
BigEndian(v, length) ==
    IF length = 0 THEN <<>>
    ELSE Append(BigEndian(v \div 256, length - 1), v % 256)

RECURSIVE ShiftBytes(_, _)
\* v >> (8 * length)
ShiftBytes(v, length) ==
    IF length = 0 THEN v ELSE ShiftBytes(v \div 256, length - 1)

\* int.to_bytes(length, 'big'): OverflowError for a negative value or one
\* that does not fit `length` bytes.
to_bytes(v, length) ==
    IF v < 0 \/ ShiftBytes(v, length) # 0
    THEN [ok |-> FALSE, bytes |-> <<>>]
    ELSE [ok |-> TRUE, bytes |-> BigEndian(v, length)]

\* The length PacketOut passes to to_bytes for a metadata field.
EncodedLength(meta) == meta.bitwidth

\* item.value of one metadata field
EncodeValue(meta) == to_bytes(meta.value, EncodedLength(meta))

\* The metadata_list PacketOut builds: ids 1, 2, ... in field order.
MetadataList(metadatas) ==
    [i \in 1..Len(metadatas) |->
        [metadata_id |-> i, value |-> EncodeValue(metadatas[i]).bytes]]

EncodingFails(metadatas) ==
    \E i \in 1..Len(metadatas) : ~EncodeValue(metadatas[i]).ok

PacketOutRequest(payload, metadatas) ==
    [type |-> "packet", payload |-> payload, metadata |-> MetadataList(metadatas)]

\* SwitchConnection.PacketOut
PacketOut(t, c, payload, metadatas) ==
    /\ Idle(t, c)
    /\ LET inv == Invoke(t, c, "PacketOut", FALSE, metadatas)
       IN IF EncodingFails(metadatas)
          THEN /\ thread' = [thread EXCEPT ![t] = Return(inv, Raise("OverflowError"))]
               /\ UNCHANGED <<requests_stream, enqueued>>
          ELSE /\ IterableQueue_put(c, PacketOutRequest(payload, metadatas))
               /\ thread' = [thread EXCEPT ![t] = Return(inv, RetNone)]
    /\ UNCHANGED <<connections, shutdown_raises, out_iter, sent, stream,
                   running, loop, queues, taken, calls>>

\* ------------------------------------------------ synchronous operations
\* A unary call on client_stub: it is issued once and either returns or
\* raises the transport's error to the caller.
UnaryCall(t, c, op, dry_run, rpc, kind, fails) ==
    /\ Idle(t, c)
    /\ LET inv == Invoke(t, c, op, dry_run, <<>>)
       IN IF dry_run
          THEN /\ thread' = [thread EXCEPT ![t] = Return(inv, RetNone)]
               /\ UNCHANGED calls
          ELSE /\ calls' = [calls EXCEPT ![c] = Append(@, [rpc |-> rpc, type |-> kind])]
               /\ thread' = [thread EXCEPT ![t] =
                               Return(inv, IF fails THEN Raise("RpcError") ELSE RetNone)]
    /\ UNCHANGED <<connections, shutdown_raises, requests_stream, enqueued,
                   out_iter, sent, stream, running, loop, queues, taken>>

SetForwardingPipelineConfig(t, c, dry_run, fails) ==
    UnaryCall(t, c, "SetForwardingPipelineConfig", dry_run,
              "SetForwardingPipelineConfig", "VERIFY_AND_COMMIT", fails)

WriteTableEntry(t, c, is_default_action, dry_run, fails) ==
    UnaryCall(t, c, "WriteTableEntry", dry_run, "Write",
              IF is_default_action THEN "MODIFY" ELSE "INSERT", fails)

DeleteTableEntry(t, c, dry_run, fails) ==
    UnaryCall(t, c, "DeleteTableEntry", dry_run, "Write", "DELETE", fails)

WritePREEntry(t, c, dry_run, fails) ==
    UnaryCall(t, c, "WritePREEntry", dry_run, "Write", "INSERT", fails)

\* Calling a generator function runs none of its body: the caller gets a
\* generator object.
ReadGenerator(t, c, op, dry_run, kind) ==
    /\ Idle(t, c)
    /\ LET inv == Invoke(t, c, op, dry_run, <<>>)
           g == [state |-> "created", op |-> op, conn |-> c, dry_run |-> dry_run,
                 kind |-> kind, yielded |-> 0, printed |-> FALSE]
       IN thread' = [thread EXCEPT ![t] = Return([inv EXCEPT !.gen = g], RetGenerator)]
    /\ UNCHANGED <<connections, shutdown_raises, requests_stream, enqueued,
                   out_iter, sent, stream, running, loop, queues, taken, calls>>

ReadTableEntries(t, c, dry_run) ==
    ReadGenerator(t, c, "ReadTableEntries", dry_run, "table_entry")

ReadCounters(t, c, dry_run) ==
    ReadGenerator(t, c, "ReadCounters", dry_run, "counter_entry")

\* Generator_next that calls client_stub.Read again at every next()
Generator_next_recalling(t, outcome) ==
    /\ thread[t].pc = "idle"
    /\ thread[t].gen.state \in {"created", "suspended"}
    /\ LET g == thread[t].gen
       IN IF g.dry_run
          THEN /\ outcome = "StopIteration"
               /\ thread' = [thread EXCEPT ![t].gen.state = "done",
                                           ![t].gen.printed = TRUE,
                                           ![t].ret = Raise("StopIteration")]
               /\ UNCHANGED calls
          ELSE /\ calls' = [calls EXCEPT ![g.conn] =
                              Append(@, [rpc |-> "Read", type |-> g.kind])]
               /\ thread' = [thread EXCEPT ![t] =
                    IF outcome = "response"
                    THEN [@ EXCEPT !.gen.state = "suspended",
                                   !.gen.yielded = @ + 1,
                                   !.ret = RetValue(g.yielded + 1)]
                    ELSE [@ EXCEPT !.gen.state = "done", !.ret = Raise(outcome)]]
    /\ UNCHANGED <<connections, shutdown_raises, requests_stream, enqueued,
                   out_iter, sent, stream, running, loop, queues, taken>>

\* next() on the generator the thread holds.  The first next() runs the body
\* up to the first yield: with dry_run it prints and returns (StopIteration);
\* otherwise it calls client_stub.Read once and iterates the responses.  The
\* transport gives a response (yielded, the generator is suspended), ends the
\* responses (StopIteration) or raises (RpcError leaves the generator).
Generator_next(t, outcome) ==
    /\ thread[t].pc = "idle"
    /\ thread[t].gen.state \in {"created", "suspended"}
    /\ LET g == thread[t].gen
       IN IF g.dry_run
          THEN /\ outcome = "StopIteration"
               /\ thread' = [thread EXCEPT ![t].gen.state = "done",
                                           ![t].gen.printed = TRUE,
                                           ![t].ret = Raise("StopIteration")]
               /\ UNCHANGED calls
          ELSE /\ calls' = [calls EXCEPT ![g.conn] =
                              IF g.state = "created"
                              THEN Append(@, [rpc |-> "Read", type |-> g.kind])
                              ELSE @]
               /\ thread' = [thread EXCEPT ![t] =
                    IF outcome = "response"
                    THEN [@ EXCEPT !.gen.state = "suspended",
                                   !.gen.yielded = @ + 1,
                                   !.ret = RetValue(g.yielded + 1)]
                    ELSE [@ EXCEPT !.gen.state = "done", !.ret = Raise(outcome)]]
    /\ UNCHANGED <<connections, shutdown_raises, requests_stream, enqueued,
                   out_iter, sent, stream, running, loop, queues, taken>>

\* -------------------------------------------------------------- shutdown
\* IterableQueue_close that discards what is still queued
IterableQueue_close_truncating(c) ==
    /\ requests_stream' = [requests_stream EXCEPT ![c] = <<Sentinel>>]
    /\ enqueued' = [enqueued EXCEPT ![c] = Append(@, Sentinel)]

\* IterableQueue_close that does nothing to a queue that was closed before
IterableQueue_close_once(c) ==
    IF Sentinel \in Range(enqueued[c])
    THEN UNCHANGED <<requests_stream, enqueued>>
    ELSE IterableQueue_put(c, Sentinel)

\* IterableQueue.close: self.put(self._sentinel)
IterableQueue_close(c) == IterableQueue_put(c, Sentinel)

\* StreamDispatcher_stop that also interrupts the dispatch thread waiting on
\* the stream
StreamDispatcher_stop_interrupting(c) ==
    /\ running' = [running EXCEPT ![c] = FALSE]
    /\ loop' = [loop EXCEPT ![c] = [pc |-> "exited", msg |-> NoMsg]]

\* StreamDispatcher.stop: self.running = False
StreamDispatcher_stop(c) ==
    /\ running' = [running EXCEPT ![c] = FALSE]
    /\ loop' = loop

\* requests_stream.close() called on its own by a caller
close(t, c) ==
    /\ Idle(t, c)
    /\ IterableQueue_close(c)
    /\ thread' = [thread EXCEPT ![t] =
                    Return(Invoke(t, c, "close", FALSE, <<>>), RetNone)]
    /\ UNCHANGED <<connections, shutdown_raises, out_iter, sent, stream,
                   running, loop, queues, taken, calls>>

\* dispatcher.stop() called on its own by a caller
stop(t, c) ==
    /\ Idle(t, c)
    /\ StreamDispatcher_stop(c)
    /\ thread' = [thread EXCEPT ![t] =
                    Return(Invoke(t, c, "stop", FALSE, <<>>), RetNone)]
    /\ UNCHANGED <<connections, shutdown_raises, requests_stream, enqueued,
                   out_iter, sent, stream, queues, taken, calls>>

\* SwitchConnection.shutdown, first statement: self.requests_stream.close().
\* A subclass whose shutdown raises leaves the call there.
shutdown(t, c) ==
    /\ Idle(t, c)
    /\ LET inv == Invoke(t, c, "shutdown", FALSE, <<>>)
       IN IF shutdown_raises[c]
          THEN /\ thread' = [thread EXCEPT ![t] = Return(inv, Raise("Exception"))]
               /\ UNCHANGED <<requests_stream, enqueued>>
          ELSE /\ IterableQueue_close(c)
               /\ thread' = [thread EXCEPT ![t] = [inv EXCEPT !.pc = "stop"]]
    /\ UNCHANGED <<connections, shutdown_raises, out_iter, sent, stream,
                   running, loop, queues, taken, calls>>

\* SwitchConnection.shutdown, second statement: self.dispatcher.stop().  Called
\* from ShutdownAllSwitchConnections, the for loop goes on with the next
\* connection.
shutdown_stop(t) ==
    /\ thread[t].pc = "stop"
    /\ StreamDispatcher_stop(thread[t].conn)
    /\ thread' = [thread EXCEPT ![t] =
                    IF thread[t].op = "shutdown" THEN Return(@, RetNone)
                    ELSE [@ EXCEPT !.pc = "for", !.arg = <<@[1] + 1>>]]
    /\ UNCHANGED <<connections, shutdown_raises, requests_stream, enqueued,
                   out_iter, sent, stream, queues, taken, calls>>

\* ShutdownAllSwitchConnections is called: the for loop starts at the first
\* element of `connections`.
ShutdownAllSwitchConnections(t) ==
    /\ thread[t].pc = "idle"
    /\ thread' = [thread EXCEPT ![t] =
                    [Invoke(t, 0, "ShutdownAllSwitchConnections", FALSE, <<1>>)
                       EXCEPT !.pc = "for"]]
    /\ UNCHANGED <<connections, shutdown_raises, requests_stream, enqueued,
                   out_iter, sent, stream, running, loop, queues, taken, calls>>

\* `for c in connections: c.shutdown()`: the list iterator gives the next
\* connection, if the list as it is now has one, and c.shutdown() runs up to
\* its close(); an exception raised by c.shutdown() leaves the loop and the
\* function.
ShutdownAllSwitchConnections_next(t) ==
    /\ thread[t].pc = "for"
    /\ LET i == thread[t].arg[1]
       IN IF i > Len(connections)
          THEN /\ thread' = [thread EXCEPT ![t] = Return(@, RetNone)]
               /\ UNCHANGED <<requests_stream, enqueued>>
          ELSE IF shutdown_raises[connections[i]]
          THEN /\ thread' = [thread EXCEPT ![t] =
                               Return([@ EXCEPT !.conn = connections[i]],
                                      Raise("Exception"))]
               /\ UNCHANGED <<requests_stream, enqueued>>
          ELSE /\ IterableQueue_close(connections[i])
               /\ thread' = [thread EXCEPT ![t].pc = "stop",
                                           ![t].conn = connections[i]]
    /\ UNCHANGED <<connections, shutdown_raises, out_iter, sent, stream,
                   running, loop, queues, taken, calls>>

\* ------------------------------------------------------- specifications
RECURSIVE SumOps(_)
SumOps(ts) ==
    IF ts = {} THEN 0
    ELSE LET t == CHOOSE x \in ts : TRUE IN thread[t].n + SumOps(ts \ {t})

\* the callers together invoke at most MaxOps operations
CanInvoke(t) == SumOps(Threads) < MaxOps
CanInvokeOut(t) == SumOps(Threads) < MaxOutOps

\* the caller thread of the single-caller specifications
Caller == "t1"

\* Payloads and metadata passed to PacketOut where the encoding is not the
\* subject.
Payloads == {"p1", "p2"}
SmallMetadatas == {<<>>, <<[value |-> 300, bitwidth |-> 2]>>}

\* Values and declared widths passed to PacketOut where the encoding is the
\* subject.
MetaValues == {0, 255, 256, 300, 65535, 65536}
MetaWidths == {1, 2, 8, 16}
MetaFields == [value : MetaValues, bitwidth : MetaWidths]
Metadatas == UNION {[1..n -> MetaFields] : n \in 0..MaxMeta}

\* The dispatch thread of connection c on a stream of at most `bound` messages
DispatchThread(c, bound) ==
    \/ \E w \in Variants :
          Len(stream[c].msgs) < bound /\ dispatch_loop_next(c, w)
    \/ dispatch_loop_end(c)
    \/ dispatch_loop_raise(c)
    \/ dispatch_loop_check(c)
    \/ dispatch_loop_route(c)

\* Callers blocked in a delivery queue's get return.
Returns(t) ==
    \/ MasterArbitrationUpdate_return(t)
    \/ PacketIn_return(t)
    \/ IdleTimeoutNotification_return(t)

\* The operations that use the stream, invoked by thread t on connection c
StreamOps(t, c) ==
    \/ \E d \in BOOLEAN : CanInvoke(t) /\ MasterArbitrationUpdate(t, c, d)
    \/ \E d \in BOOLEAN : CanInvoke(t) /\ PacketIn(t, c, d)
    \/ \E d \in BOOLEAN : CanInvoke(t) /\ IdleTimeoutNotification(t, c, d)

\* What next() on a Read generator may meet in the transport
GeneratorOutcomes == {"response", "StopIteration", "RpcError"}

\* The caller iterates the generator it holds; the transport streams back at
\* most MaxResponses responses.
Iterates(t) ==
    \E o \in GeneratorOutcomes :
       /\ o = "response" => thread[t].gen.yielded < MaxResponses
       /\ Generator_next(t, o)

\* The synchronous operations
UnaryOps(t, c) ==
    \/ \E d, f \in BOOLEAN : CanInvoke(t) /\ SetForwardingPipelineConfig(t, c, d, f)
    \/ \E a, d, f \in BOOLEAN : CanInvoke(t) /\ WriteTableEntry(t, c, a, d, f)
    \/ \E d, f \in BOOLEAN : CanInvoke(t) /\ DeleteTableEntry(t, c, d, f)
    \/ \E d, f \in BOOLEAN : CanInvoke(t) /\ WritePREEntry(t, c, d, f)
    \/ \E d \in BOOLEAN : CanInvoke(t) /\ ReadTableEntries(t, c, d)
    \/ \E d \in BOOLEAN : CanInvoke(t) /\ ReadCounters(t, c, d)
    \/ Iterates(t)

Init == Constructed(<<1>>)

\* Inbound side of one connection: the dispatch thread, one caller pulling
\* from the delivery queues, shutdown.
Next ==
    \/ DispatchThread(1, MaxInbound)
    \/ Returns(Caller)
    \/ StreamOps(Caller, 1)
    \/ CanInvoke(Caller) /\ shutdown(Caller, 1)
    \/ shutdown_stop(Caller)

Spec == Init /\ [][Next]_vars

\* Outbound side of one connection: callers putting requests, shutdown
\* closing the queue, the transport iterating it.
NextOutbound ==
    \/ \E t \in Threads, p \in Payloads, m \in SmallMetadatas :
          CanInvokeOut(t) /\ PacketOut(t, 1, p, m)
    \/ \E t \in Threads : CanInvokeOut(t) /\ MasterArbitrationUpdate(t, 1, FALSE)
    \/ \E t \in Threads : CanInvokeOut(t) /\ shutdown(t, 1)
    \/ \E t \in Threads : shutdown_stop(t)
    \/ IterableQueue_next(1)

SpecOutbound == Init /\ [][NextOutbound]_vars

\* The transport keeps pulling from the request iterator it was given.
FairSpecOutbound == SpecOutbound /\ WF_vars(IterableQueue_next(1))

\* Every operation of one connection with and without dry_run, one caller.
NextOps ==
    \/ DispatchThread(1, MaxOpsInbound)
    \/ Returns(Caller)
    \/ StreamOps(Caller, 1)
    \/ UnaryOps(Caller, 1)
    \/ \E p \in Payloads, m \in SmallMetadatas :
          CanInvoke(Caller) /\ PacketOut(Caller, 1, p, m)

SpecOps == Init /\ [][NextOps]_vars

\* PacketOut applied once to each metadata list.
NextPacketOut ==
    \/ \E m \in Metadatas : thread[Caller].n = 0 /\ PacketOut(Caller, 1, "p1", m)
    \/ IterableQueue_next(1)

SpecPacketOut == Init /\ [][NextPacketOut]_vars

\* The registry: connections are constructed and shut down one by one or
\* all together.
InitRegistry == Constructed(<<>>)

NextRegistry ==
    \/ \E c \in Conns, r \in BOOLEAN : SwitchConnection(c, r)
    \/ \E c \in Conns : SwitchConnection_append(c)
    \/ \E c \in Conns : CanInvoke(Caller) /\ shutdown(Caller, c)
    \/ CanInvoke(Caller) /\ ShutdownAllSwitchConnections(Caller)
    \/ ShutdownAllSwitchConnections_next(Caller)
    \/ shutdown_stop(Caller)
    \/ \E c \in Conns : IterableQueue_next(c)

SpecRegistry == InitRegistry /\ [][NextRegistry]_vars

\* ---------------------------------------------------------------- claims
\* The variant each delivery queue is for.
VariantOf(q) ==
    CASE q = "arbitration_queue" -> "arbitration"
      [] q = "packet_in_queue" -> "packet"
      [] q = "timeout_queue" -> "idle_timeout_notification"
      [] q = "error_queue" -> "error"

QueueOf(which) == CHOOSE q \in QueueNames : VariantOf(q) = which

\* Everything the dispatcher has pushed onto queue q of connection c, in
\* push order: what callers took from it, then what it still holds.
Pushed(c, q) == taken[c][q] \o queues[c][q]

\* The stream's messages the dispatch thread has finished with.
Processed(c) ==
    IF loop[c].pc \in {"check", "route"}
    THEN SubSeq(stream[c].msgs, 1, Len(stream[c].msgs) - 1)
    ELSE stream[c].msgs

\* C1: while stop has not been requested, each delivery queue has been
\* pushed exactly the payloads of the processed messages of its variant, in
\* stream order; so every well-formed message was pushed once, to its queue.
C1_Demultiplexing ==
    \A c \in Range(connections) :
        running[c] =>
            \A q \in QueueNames :
                Pushed(c, q) = SelectPayloads(Processed(c), VariantOf(q))

\* C1 witness: two payloads of one variant were pushed around a payload of
\* another variant, each onto its own queue.
C1_Witness ==
    /\ running[1]
    /\ \E q1, q2 \in QueueNames :
          /\ q1 # q2
          /\ Pushed(1, q1) = <<1, 3>>
          /\ Pushed(1, q2) = <<2>>

\* C6: routing a message with no variant populated changes no delivery
\* queue and no caller and leaves the loop waiting for the next message;
\* every well-formed message routed after such a message is appended to the
\* queue of its variant and to no other.
C6_AnomalyDropped ==
    [][\A c \in Range(connections) :
          (loop[c].pc = "route" /\ loop'[c].pc # "route") =>
              LET m == loop[c].msg
              IN /\ loop'[c].pc = "next"
                 /\ IF m.which = "none"
                    THEN queues'[c] = queues[c] /\ thread' = thread
                    ELSE (\E i \in 1..Len(Processed(c)) :
                             Processed(c)[i].which = "none") =>
                         queues'[c] = [queues[c] EXCEPT ![QueueOf(m.which)] =
                                           Append(@, m.payload)]]_vars

\* C6 witness: the first message had no variant, the second was routed.
C6_Witness ==
    /\ Len(stream[1].msgs) >= 2
    /\ stream[1].msgs[1].which = "none"
    /\ loop[1].pc = "next"
    /\ \E q \in QueueNames : Pushed(1, q) = <<2>>

\* C7: once the inbound stream has ended, by exhaustion or by raising, the
\* dispatch loop has returned, as it does after a stop: no exception left it.
C7_StreamEndExitsCleanly ==
    \A c \in Range(connections) :
        stream[c].status \in {"ended", "raised"} => loop[c].pc = "exited"


\* The index in `items` of the first sentinel, Len(items) + 1 when none.
FirstSentinel(items) ==
    IF Sentinel \in Range(items)
    THEN CHOOSE i \in 1..Len(items) :
            items[i] = Sentinel /\ \A j \in 1..(i - 1) : items[j] # Sentinel
    ELSE Len(items) + 1

\* The items put before the first close.
BeforeClose(c) == SubSeq(enqueued[c], 1, FirstSentinel(enqueued[c]) - 1)

\* The number of items the transport's iteration has dequeued.
Dequeued(c) == Len(enqueued[c]) - Len(requests_stream[c])

Min(a, b) == IF a < b THEN a ELSE b

\* C2: what the transport has been yielded is, in put order, the items
\* dequeued so far that were put before the first close; the iteration is
\* exhausted exactly when the sentinel has been dequeued, dequeues nothing
\* after it, and the sentinel is never yielded.
C2_OutboundFifo ==
    \A c \in Range(connections) :
        LET k == FirstSentinel(enqueued[c])
        IN /\ sent[c] = SubSeq(enqueued[c], 1, Min(Dequeued(c), k - 1))
           /\ (out_iter[c] = "exhausted") <=> (Dequeued(c) >= k)
           /\ Dequeued(c) <= k
           /\ Sentinel \notin Range(sent[c])

\* C2 witness: two different requests were yielded in put order and the
\* iteration stopped at the sentinel.
C2_Witness ==
    /\ out_iter[1] = "exhausted"
    /\ Len(sent[1]) >= 2
    /\ sent[1][1] # sent[1][2]
    /\ sent[1] = BeforeClose(1)

\* C8: with the transport consuming, once close has been called the
\* iteration ends, and it ends having yielded every item put before close.
C8_CloseDrains ==
    (Sentinel \in Range(enqueued[1]))
        ~> (out_iter[1] = "exhausted" /\ sent[1] = BeforeClose(1))

\* C8 witness: the transport is part-way through the queue when close is
\* called with two requests still queued ahead of the sentinel.
C8_Witness ==
    /\ out_iter[1] = "active"
    /\ Len(sent[1]) >= 1
    /\ Len(requests_stream[1]) >= 3
    /\ requests_stream[1][1] # Sentinel
    /\ requests_stream[1][2] # Sentinel
    /\ requests_stream[1][3] = Sentinel


\* Thread t invokes an operation in this step.
Invokes(t) == thread'[t].n = thread[t].n + 1

\* C3: an operation invoked with dry_run puts nothing on the outbound queue,
\* calls no transport method and does not pull from a delivery queue.
C3_DryRunNoEffect ==
    [][\A t \in Threads :
          (Invokes(t) /\ thread'[t].dry_run) =>
              /\ enqueued' = enqueued
              /\ calls' = calls
              /\ thread'[t].pc \notin QueueNames]_vars

\* ShutdownAllSwitchConnections leaves thread t in this step, by return or by
\* an exception.
LeavesShutdownAll(t) ==
    /\ thread[t].op = "ShutdownAllSwitchConnections"
    /\ thread[t].pc # "idle"
    /\ thread'[t].pc = "idle"

\* C4: when ShutdownAllSwitchConnections is left, every registered connection
\* whose own shutdown does not raise is stopped and has its outbound queue
\* closed.
C4_BulkShutdownIsolation ==
    [][\A t \in Threads :
          LeavesShutdownAll(t) =>
              \A c \in Range(connections) :
                  ~shutdown_raises[c] =>
                      ~running'[c] /\ Sentinel \in Range(enqueued'[c])]_vars

\* C5: a MasterArbitrationUpdate without dry_run puts one arbitration request
\* on the outbound queue and pulls nothing in that step; when it returns, it
\* returns the oldest arbitration payload of the stream not yet taken; and a
\* packet-in payload is pushed onto the packet-in queue only.
C5_ArbitrationEndToEnd ==
    /\ [][\A t \in Threads :
            /\ (Invokes(t) /\ thread'[t].op = "MasterArbitrationUpdate"
                   /\ ~thread'[t].dry_run) =>
                  LET c == thread'[t].conn
                  IN /\ enqueued'[c] = Append(enqueued[c], ArbitrationRequest(c))
                     /\ thread'[t].pc = "arbitration_queue"
                     /\ taken' = taken /\ queues' = queues
            /\ (thread[t].op = "MasterArbitrationUpdate" /\ thread[t].pc # "idle"
                   /\ thread'[t].pc = "idle") =>
                  LET c == thread[t].conn
                      arb == SelectPayloads(stream[c].msgs, "arbitration")
                      k == Len(taken[c]["arbitration_queue"]) + 1
                  IN /\ k <= Len(arb)
                     /\ thread'[t].ret = RetValue(arb[k])
                     /\ taken'[c]["arbitration_queue"] =
                            Append(taken[c]["arbitration_queue"], arb[k])]_vars
    /\ [](\A c \in Range(connections) : \A i \in 1..Len(stream[c].msgs) :
            stream[c].msgs[i].which = "packet" =>
                \A q \in QueueNames \ {"packet_in_queue"} :
                    stream[c].msgs[i].payload \notin Range(Pushed(c, q)))

\* C5 witness: a packet-in message arrived before the arbitration answer;
\* the call returned the arbitration payload and the packet-in payload is in
\* the packet-in queue.
C5_Witness ==
    /\ Len(stream[1].msgs) >= 2
    /\ stream[1].msgs[1].which = "packet"
    /\ stream[1].msgs[2].which = "arbitration"
    /\ thread[Caller].op = "MasterArbitrationUpdate"
    /\ thread[Caller].ret = RetValue(2)
    /\ queues[1]["packet_in_queue"] = <<1>>
    /\ enqueued[1] = <<ArbitrationRequest(1)>>

\* The bytes a value of a declared bit width occupies.
BytesOfBits(bitwidth) == (bitwidth + 7) \div 8

\* the request the last put placed on the outbound queue of connection c
LastEnqueued(c) == enqueued[c][Len(enqueued[c])]

\* C9: a PacketOut that returned put a request whose metadata ids are
\* 1, 2, ... in field order and whose values are the big-endian bytes of the
\* field values, as many bytes as the declared bit width occupies.
C9_MetadataEncoding ==
    \A t \in Threads :
        (thread[t].op = "PacketOut" /\ thread[t].ret = RetNone) =>
            LET req == LastEnqueued(thread[t].conn)
                metadatas == thread[t].arg
            IN /\ Len(req.metadata) = Len(metadatas)
               /\ \A i \in 1..Len(metadatas) :
                     /\ req.metadata[i].metadata_id = i
                     /\ req.metadata[i].value =
                            BigEndian(metadatas[i].value,
                                      BytesOfBits(metadatas[i].bitwidth))

\* C10: a PacketOut with a metadata value too large for its declared bit
\* width fails and puts nothing on the outbound queue.
C10_EncodingError ==
    \A t \in Threads :
        (/\ thread[t].op = "PacketOut"
         /\ \E i \in 1..Len(thread[t].arg) :
               thread[t].arg[i].value >= 2 ^ thread[t].arg[i].bitwidth) =>
            /\ thread[t].ret = Raise("OverflowError")
            /\ enqueued[thread[t].conn] = <<>>


\* ------------------------------------------------- claims on blocking pulls
\* The dispatch thread and the caller are threads the interpreter keeps
\* scheduling: a step either can take is eventually taken.
FairSpec ==
    /\ Spec
    /\ WF_vars(dispatch_loop_check(1))
    /\ WF_vars(dispatch_loop_route(1))
    /\ WF_vars(Returns(Caller))

\* The queue an operation that pulls is meant to pull from.
PullQueue(op) ==
    CASE op = "MasterArbitrationUpdate" -> "arbitration_queue"
      [] op = "PacketIn" -> "packet_in_queue"
      [] op = "IdleTimeoutNotification" -> "timeout_queue"

\* Thread t is blocked in the get of a pull operation.
Blocked(t) == thread[t].pc \in QueueNames

\* Thread t returns from a blocking get in this step.
Unblocks(t) == Blocked(t) /\ thread'[t].pc = "idle"

\* The payload a get on queue q of connection c is due: the oldest payload
\* of q's variant on the stream that no caller has taken; 0 when none.
Due(c, q) ==
    LET all == SelectPayloads(stream[c].msgs, VariantOf(q))
        k == Len(taken[c][q]) + 1
    IN IF k <= Len(all) THEN all[k] ELSE 0

\* C11: a caller blocked in PacketIn or IdleTimeoutNotification returns only
\* by taking a payload the dispatcher pushed onto that operation's queue, the
\* oldest one not yet taken, which is the value returned (None under
\* dry_run); and once such a payload has passed the stop check or is queued,
\* the blocked caller returns.
C11_BlockingPull ==
    /\ [][\A t \in Threads :
            (Unblocks(t) /\ thread[t].op \in {"PacketIn", "IdleTimeoutNotification"}) =>
                LET c == thread[t].conn
                    q == PullQueue(thread[t].op)
                IN /\ queues[c][q] # <<>>
                   /\ Head(queues[c][q]) = Due(c, q)
                   /\ queues'[c][q] = Tail(queues[c][q])
                   /\ taken'[c][q] = Append(taken[c][q], Due(c, q))
                   /\ thread'[t].ret = IF thread[t].dry_run THEN RetNone
                                       ELSE RetValue(Due(c, q))]_vars
    /\ \A q \in {"packet_in_queue", "timeout_queue"} :
          (/\ thread[Caller].pc = q
           /\ thread[Caller].op \in {"PacketIn", "IdleTimeoutNotification"}
           /\ \/ queues[1][q] # <<>>
              \/ loop[1].pc = "route" /\ loop[1].msg.which = VariantOf(q))
            ~> (thread[Caller].pc = "idle")

\* C11 witness: the caller's PacketIn has returned the first packet payload,
\* which came second on the stream.
C11_Witness ==
    /\ thread[Caller].op = "PacketIn"
    /\ thread[Caller].n = 1
    /\ thread[Caller].ret = RetValue(2)
    /\ stream[1].msgs[1].which # "packet"
    /\ taken[1]["packet_in_queue"] = <<2>>


\* ------------------------------------------------------- claims on stop
\* The number of payloads pushed onto the queues of connection c so far.
PushCount(c) ==
    Len(Pushed(c, "arbitration_queue")) + Len(Pushed(c, "packet_in_queue"))
        + Len(Pushed(c, "timeout_queue")) + Len(Pushed(c, "error_queue"))

\* C12: once running is cleared, the loop's next stop check leaves the loop
\* without pushing; from then on a payload is pushed only for the message
\* that had already passed the check, after which no message reaches the
\* routing step again; and a routing step pushes one payload onto the one
\* queue of the message's variant, or nothing for a message without variant.
C12_CooperativeStop ==
    [][\A c \in Range(connections) :
          /\ (~running[c] /\ loop[c].pc = "check" /\ loop'[c] # loop[c]) =>
                loop'[c].pc = "exited" /\ queues'[c] = queues[c]
          /\ (~running[c] /\ loop[c].pc # "route") =>
                loop'[c].pc # "route" /\ PushCount(c)' = PushCount(c)
          /\ (loop[c].pc = "route" /\ loop'[c].pc # "route") =>
                LET m == loop[c].msg
                IN IF m.which = "none" THEN queues'[c] = queues[c]
                   ELSE queues'[c] = [queues[c] EXCEPT ![QueueOf(m.which)] =
                                         Append(@, m.payload)]]_vars

\* C12 witness: stop was requested after a message had been pulled; the loop
\* left at the stop check and that message, the second, was never pushed.
C12_Witness ==
    /\ ~running[1]
    /\ loop[1].pc = "exited"
    /\ stream[1].status = "open"
    /\ Len(stream[1].msgs) = 2
    /\ stream[1].msgs[1].which = "packet"
    /\ stream[1].msgs[2].which = "packet"
    /\ Pushed(1, "packet_in_queue") = <<1>>


\* The dispatch thread of connection c has ended.
Ended(c) == loop[c].pc \in {"exited", "crashed"}

\* Thread t runs dispatcher.stop() in this step, on its own or as the
\* second statement of shutdown.
Stops(t) ==
    \/ thread[t].pc = "stop" /\ thread'[t].pc # "stop"
    \/ Invokes(t) /\ thread'[t].op = "stop"

\* C13: stop clears the flag and is over in the same step, without moving
\* the dispatch thread, and nothing else clears the flag; a dispatch thread
\* waiting for the next message moves only when the stream delivers a
\* message or closes, so after a stop it never ends while the stream stays
\* silent; when the stream closes the thread ends, and a message delivered
\* after the stop ends it at the check.
C13_StopBoundedByTransport ==
    /\ [][/\ \A t \in Threads :
                Stops(t) =>
                    /\ thread'[t].pc \in {"idle", "for"}
                    /\ ~running'[thread'[t].conn]
                    /\ loop' = loop
          /\ \A c \in Range(connections) :
                /\ (running[c] /\ ~running'[c]) =>
                      \E t \in Threads : Stops(t) /\ thread'[t].conn = c
                /\ (loop[c].pc = "next" /\ loop'[c] # loop[c]) =>
                      stream'[c] # stream[c]
                /\ (stream[c].status = "open" /\ stream'[c].status # "open") =>
                      Ended(c)']_vars
    /\ (~running[1] /\ loop[1].pc = "check") ~> (loop[1].pc = "exited")

\* C13 witness: shutdown has returned, the stream is open and silent, and
\* the dispatch thread still waits for the next message.
C13_Witness ==
    /\ ~running[1]
    /\ thread[Caller].op = "shutdown"
    /\ thread[Caller].pc = "idle"
    /\ stream[1].status = "open"
    /\ Len(stream[1].msgs) >= 1
    /\ loop[1].pc = "next"


\* C14: after the dispatch thread has ended nothing is pushed any more; a
\* caller blocked on an empty delivery queue then stays blocked, with no
\* return and no error; a caller blocked on a queue that still holds payloads
\* returns the oldest payload of the stream not yet taken.
C14_StuckAfterStreamDeath ==
    [][/\ \A c \in Range(connections) :
            Ended(c) => loop'[c] = loop[c] /\ PushCount(c)' = PushCount(c)
       /\ \A t \in Threads :
            (Blocked(t) /\ Ended(thread[t].conn)) =>
                LET c == thread[t].conn
                    q == thread[t].pc
                IN IF queues[c][q] = <<>>
                   THEN thread'[t] = thread[t]
                   ELSE Unblocks(t) =>
                           /\ Due(c, q) > 0
                           /\ Head(queues[c][q]) = Due(c, q)
                           /\ taken'[c][q] = Append(taken[c][q], Due(c, q))
                           /\ thread'[t].ret = IF thread[t].dry_run THEN RetNone
                                               ELSE RetValue(Due(c, q))]_vars

\* C14 witness: the stream ended, the dispatch thread returned; the caller
\* has taken the payload queued before and is now blocked on the empty queue.
C14_Witness ==
    /\ stream[1].status = "ended"
    /\ loop[1].pc = "exited"
    /\ running[1]
    /\ thread[Caller].pc = "arbitration_queue"
    /\ thread[Caller].n = 2
    /\ taken[1]["arbitration_queue"] = <<1>>
    /\ queues[1]["arbitration_queue"] = <<>>


\* --------------------------------------------------- claims on lifecycle
\* One connection from its construction on: its dispatch thread, shutdown.
NextLifecycle ==
    \/ SwitchConnection(1, FALSE)
    \/ SwitchConnection_append(1)
    \/ DispatchThread(1, MaxInbound)
    \/ CanInvoke(Caller) /\ shutdown(Caller, 1)
    \/ shutdown_stop(Caller)
    \/ CanInvoke(Caller) /\ stop(Caller, 1)
    \/ CanInvoke(Caller) /\ close(Caller, 1)

SpecLifecycle == InitRegistry /\ [][NextLifecycle]_vars

\* C15: before its constructor builds the dispatcher a connection has no
\* dispatch loop and no flag; the step that builds it sets the flag and starts
\* the loop, and the flag stays set until the constructor has returned, which
\* is when the connection is registered; from then on a cleared flag is never
\* set again, the loop never goes back to unstarted, and a loop that has
\* ended is never started again.
C15_Lifecycle ==
    [][\A c \in Conns :
          IF ~Built(c)
          THEN /\ loop[c].pc = "unborn" /\ ~running[c]
               /\ c \notin Range(connections) /\ c \notin Range(connections')
               /\ Built(c)' => running'[c] /\ loop'[c].pc = "next"
          ELSE /\ Built(c)'
               /\ loop'[c].pc # "unborn"
               /\ c \notin Range(connections) => running[c] /\ running'[c]
               /\ c \in Range(connections) => c \in Range(connections')
               /\ ~running[c] => ~running'[c]
               /\ Ended(c) => loop'[c] = loop[c]]_vars

\* C15 witness: the connection was constructed, ran its loop over a message,
\* was stopped, and its loop has left at the stop check.
C15_Witness ==
    /\ connections = <<1>>
    /\ ~running[1]
    /\ loop[1].pc = "exited"
    /\ stream[1].status = "open"
    /\ PushCount(1) >= 1


\* ------------------------------------------ claims on synchronous operations
MaxSyncInbound == 1

\* The synchronous operations of one caller next to PacketOut and the
\* dispatch thread receiving packets.
NextSync ==
    \/ Len(stream[1].msgs) < MaxSyncInbound /\ dispatch_loop_next(1, "packet")
    \/ dispatch_loop_end(1)
    \/ dispatch_loop_check(1)
    \/ dispatch_loop_route(1)
    \/ UnaryOps(Caller, 1)
    \/ CanInvoke(Caller) /\ PacketOut(Caller, 1, "p1", <<>>)

SpecSync == Init /\ [][NextSync]_vars

SyncOps == {"SetForwardingPipelineConfig", "WriteTableEntry", "DeleteTableEntry",
            "WritePREEntry", "ReadTableEntries", "ReadCounters"}

\* The two operations that are generator functions.
ReadOps == {"ReadTableEntries", "ReadCounters"}

\* The stub method each synchronous operation calls.
RpcOf(op) ==
    CASE op = "SetForwardingPipelineConfig" -> "SetForwardingPipelineConfig"
      [] op \in {"WriteTableEntry", "DeleteTableEntry", "WritePREEntry"} -> "Write"
      [] op \in ReadOps -> "Read"

\* Thread t invokes a synchronous operation without dry_run in this step.
InvokesSync(t) ==
    /\ Invokes(t)
    /\ thread'[t].op \in SyncOps
    /\ ~thread'[t].dry_run

\* Thread t calls next() on the generator it holds in this step.
IteratesGenerator(t) ==
    /\ ~Invokes(t)
    /\ thread'[t].gen # thread[t].gen

\* The step leaves the outbound queue, the delivery queues, the running flag
\* and the dispatch thread as they were.
StreamUntouched ==
    UNCHANGED <<requests_stream, enqueued, out_iter, sent, queues, taken,
                running, loop, stream>>

\* C16 as stated: each of the six operations, invoked without dry_run, has
\* made exactly one call of its stub method when it returns to its caller.
C16_OneCallEach ==
    [][\A t \in Threads :
          (InvokesSync(t) /\ thread'[t].pc = "idle") =>
             Len(calls'[thread'[t].conn]) = Len(calls[thread'[t].conn]) + 1]_vars

\* C16 amended: the config push, write, delete and PRE write without dry_run
\* make one call of their stub method and return None or raise the error the
\* call raised.  ReadTableEntries and ReadCounters make no call when invoked
\* and return a generator; the first next() on a generator made without
\* dry_run makes the one Read call, later next() make none, and next() gives
\* the next response, StopIteration or the error the transport raised, after
\* which the generator is done for good.  Nothing else calls the stub, and
\* every one of these steps leaves the outbound queue, the four delivery
\* queues, the running flag and the dispatch thread as they were.
C16_SyncOpsIsolated ==
    [][\A c \in Conns :
          /\ \A t \in Threads :
                /\ (InvokesSync(t) /\ thread'[t].conn = c
                      /\ thread'[t].op \notin ReadOps) =>
                      /\ Len(calls'[c]) = Len(calls[c]) + 1
                      /\ SubSeq(calls'[c], 1, Len(calls[c])) = calls[c]
                      /\ calls'[c][Len(calls'[c])].rpc = RpcOf(thread'[t].op)
                      /\ thread'[t].pc = "idle"
                      /\ thread'[t].ret \in {RetNone, Raise("RpcError")}
                      /\ StreamUntouched
                /\ (Invokes(t) /\ thread'[t].conn = c
                      /\ thread'[t].op \in ReadOps) =>
                      /\ calls' = calls
                      /\ thread'[t].pc = "idle"
                      /\ thread'[t].ret = RetGenerator
                      /\ thread'[t].gen.state = "created"
                      /\ StreamUntouched
                /\ (IteratesGenerator(t) /\ thread[t].gen.conn = c) =>
                      LET g == thread[t].gen
                      IN /\ g.state \in {"created", "suspended"}
                         /\ calls'[c] =
                               IF g.state = "created" /\ ~g.dry_run
                               THEN Append(calls[c], [rpc |-> "Read", type |-> g.kind])
                               ELSE calls[c]
                         /\ \/ /\ thread'[t].ret = RetValue(g.yielded + 1)
                               /\ thread'[t].gen.state = "suspended"
                               /\ ~g.dry_run
                            \/ /\ thread'[t].ret = Raise("StopIteration")
                               /\ thread'[t].gen.state = "done"
                            \/ /\ thread'[t].ret = Raise("RpcError")
                               /\ thread'[t].gen.state = "done"
                               /\ ~g.dry_run
                         /\ StreamUntouched
          /\ calls'[c] # calls[c] =>
                \E t \in Threads :
                   \/ InvokesSync(t) /\ thread'[t].conn = c
                   \/ IteratesGenerator(t) /\ thread[t].gen.conn = c
                         /\ thread[t].gen.state = "created"]_vars

\* C16 witness: the caller took one response from a ReadTableEntries
\* generator, put a PacketOut, and at the next next() got the transport's
\* error; one Read call was made and the request is on the outbound queue.
C16_Witness ==
    /\ thread[Caller].gen.op = "ReadTableEntries"
    /\ thread[Caller].gen.state = "done"
    /\ thread[Caller].gen.yielded = 1
    /\ thread[Caller].op = "PacketOut"
    /\ thread[Caller].ret = Raise("RpcError")
    /\ calls[1] = <<[rpc |-> "Read", type |-> "table_entry"]>>
    /\ requests_stream[1] # <<>>
    /\ running[1]

\* ------------------------------------------------- claims on puts after close
\* One caller putting requests before and after shutdown, the transport
\* pulling them, and the dispatch thread feeding the arbitration answers.
NextAfterClose ==
    \/ CanInvokeOut(Caller) /\ PacketOut(Caller, 1, "p1", <<>>)
    \/ CanInvokeOut(Caller) /\ MasterArbitrationUpdate(Caller, 1, FALSE)
    \/ CanInvokeOut(Caller) /\ shutdown(Caller, 1)
    \/ shutdown_stop(Caller)
    \/ MasterArbitrationUpdate_return(Caller)
    \/ IterableQueue_next(1)
    \/ DispatchThread(1, MaxSyncInbound)

SpecAfterClose == Init /\ [][NextAfterClose]_vars

Closed(c) == Sentinel \in Range(enqueued[c])

\* The items put after the first close.
AfterClose(c) ==
    SubSeq(enqueued[c], FirstSentinel(enqueued[c]) + 1, Len(enqueued[c]))

\* C17: a PacketOut or MasterArbitrationUpdate invoked after close puts its
\* request and raises nothing; the transport is yielded only items put before
\* the first close; once the iteration is exhausted it stays exhausted, yields
\* nothing more, and everything put after the close stays on the queue; a
\* MasterArbitrationUpdate blocked while the arbitration queue is empty does
\* not move, and it returns only with a payload of that queue.
C17_LostAfterClose ==
    [][\A c \in Range(connections) :
          /\ \A t \in Threads :
                /\ (Closed(c) /\ Invokes(t) /\ thread'[t].conn = c
                      /\ thread'[t].op \in {"PacketOut", "MasterArbitrationUpdate"}) =>
                      /\ Len(requests_stream'[c]) = Len(requests_stream[c]) + 1
                      /\ AfterClose(c)' = Append(AfterClose(c), LastEnqueued(c)')
                      /\ LastEnqueued(c)' # Sentinel
                      /\ thread'[t].ret \in {NoRet, RetNone}
                /\ (thread[t].op = "MasterArbitrationUpdate" /\ Blocked(t)
                      /\ thread[t].conn = c) =>
                      IF queues[c]["arbitration_queue"] = <<>>
                      THEN thread'[t] = thread[t]
                      ELSE Unblocks(t) =>
                              thread'[t].ret =
                                 RetValue(Head(queues[c]["arbitration_queue"]))
          /\ Len(sent'[c]) <= Len(BeforeClose(c)')
          /\ sent'[c] = SubSeq(BeforeClose(c)', 1, Len(sent'[c]))
          /\ out_iter[c] = "exhausted" =>
                /\ out_iter'[c] = "exhausted"
                /\ sent'[c] = sent[c]
                /\ requests_stream[c] = AfterClose(c)]_vars

\* C17 witness: a MasterArbitrationUpdate invoked after shutdown has put its
\* request behind the sentinel; the iteration is exhausted, the request is
\* still queued, and the caller is blocked on the empty arbitration queue.
C17_Witness ==
    /\ out_iter[1] = "exhausted"
    /\ Closed(1)
    /\ requests_stream[1] = <<ArbitrationRequest(1)>>
    /\ AfterClose(1) = <<ArbitrationRequest(1)>>
    /\ thread[Caller].op = "MasterArbitrationUpdate"
    /\ Blocked(Caller)
    /\ queues[1]["arbitration_queue"] = <<>>
    /\ sent[1] # <<>>


\* ------------------------------------------------ claims on the error queue
\* The dispatch thread of c puts an error on the error queue in this step.
RoutesError(c) == queues'[c]["error_queue"] # queues[c]["error_queue"]

\* C18: nothing is ever taken from the error queue, which only grows at its
\* tail; the step that queues an error leaves every caller and every other
\* delivery queue as they were; a blocked caller returns only with the head
\* of the queue it waits on, which is never the error queue, and never with
\* an exception.
C18_ErrorsNeverSurface ==
    [][\A c \in Range(connections) :
          /\ taken'[c]["error_queue"] = <<>>
          /\ Len(queues'[c]["error_queue"]) >= Len(queues[c]["error_queue"])
          /\ SubSeq(queues'[c]["error_queue"], 1, Len(queues[c]["error_queue"]))
                = queues[c]["error_queue"]
          /\ RoutesError(c) =>
                /\ thread' = thread
                /\ \A q \in QueueNames \ {"error_queue"} :
                      queues'[c][q] = queues[c][q]
          /\ \A t \in Threads :
                (Blocked(t) /\ thread[t].conn = c) =>
                   /\ thread[t].pc # "error_queue"
                   /\ Unblocks(t) =>
                         /\ queues[c][thread[t].pc] # <<>>
                         /\ thread'[t].ret \in
                               {RetNone, RetValue(Head(queues[c][thread[t].pc]))}]_vars

\* C18 witness: errors have arrived and are queued while the caller is still
\* blocked on its empty queue and the dispatch thread waits for more.
C18_Witness ==
    /\ Blocked(Caller)
    /\ queues[1][thread[Caller].pc] = <<>>
    /\ Len(queues[1]["error_queue"]) >= 2
    /\ loop[1].pc = "next"
    /\ running[1]


\* ------------------------------------------------ claims on concurrent pulls
\* Two callers pulling from the delivery queues of one connection while its
\* dispatch thread pushes.
MaxPullInbound == 2

NextPullers ==
    \/ DispatchThread(1, MaxPullInbound)
    \/ \E t \in Threads : Returns(t)
    \/ \E t \in Threads : CanInvoke(t) /\ MasterArbitrationUpdate(t, 1, FALSE)
    \/ \E t \in Threads : CanInvoke(t) /\ PacketIn(t, 1, FALSE)
    \/ \E t \in Threads : CanInvoke(t) /\ IdleTimeoutNotification(t, 1, FALSE)

SpecPullers == Init /\ [][NextPullers]_vars

\* The payloads the dispatch thread has routed to queue q.
Routed(c, q) == SelectPayloads(Processed(c), VariantOf(q))

NoDuplicates(s) == \A i, j \in 1..Len(s) : s[i] = s[j] => i = j

\* C19: in every state the payloads handed to callers followed by those still
\* queued are the payloads routed to the queue, each once, so the completed
\* pulls never outnumber the routed payloads; a return takes the head of the
\* queue for one caller and leaves every other caller where it was; two
\* callers never hold the same payload.
C19_ExactlyOnceHandOff ==
    [][/\ \A q \in QueueNames :
             /\ Pushed(1, q)' = Routed(1, q)'
             /\ NoDuplicates(Pushed(1, q)')
             /\ Len(taken'[1][q]) <= Len(Routed(1, q)')
       /\ \A t \in Threads :
             Unblocks(t) =>
                LET q == thread[t].pc
                IN /\ queues[1][q] # <<>>
                   /\ queues'[1][q] = Tail(queues[1][q])
                   /\ taken'[1][q] = Append(taken[1][q], Head(queues[1][q]))
                   /\ ~thread[t].dry_run =>
                         thread'[t].ret = RetValue(Head(queues[1][q]))
                   /\ \A u \in Threads \ {t} : thread'[u] = thread[u]
       /\ \A t, u \in Threads :
             (t # u /\ thread'[t].pc = "idle" /\ thread'[u].pc = "idle"
                /\ thread'[t].ret.tag = "value" /\ thread'[u].ret.tag = "value"
                /\ thread'[t].op = thread'[u].op) =>
                thread'[t].ret # thread'[u].ret]_vars

\* C19 witness: both callers pulled from the packet-in queue; the second
\* payload went to t1, the first to t2.
C19_Witness ==
    /\ thread["t1"].op = "PacketIn" /\ thread["t2"].op = "PacketIn"
    /\ Len(taken[1]["packet_in_queue"]) = 2
    /\ thread["t1"].ret = RetValue(taken[1]["packet_in_queue"][2])
    /\ thread["t2"].ret = RetValue(taken[1]["packet_in_queue"][1])
    /\ queues[1]["packet_in_queue"] = <<>>


\* --------------------------------------------------- claims on the registry
\* Thread t runs requests_stream.close() of a shutdown in this step.
Closes(t) == thread[t].pc # "stop" /\ thread'[t].pc = "stop"

\* C20: the registry holds each constructed connection once and only grows;
\* a shutdown that is not overridden to raise puts one more sentinel, whether
\* or not the connection was shut down before, then clears the running flag
\* and returns None; ShutdownAllSwitchConnections goes through the registry
\* in order and does the same for every connection it gets to, already shut
\* down or not; the transport is never yielded a sentinel, its iteration is
\* exhausted at the first sentinel and stays so, with every later item, the
\* extra sentinels included, left on the queue.
C20_RegistryAndRepeatedShutdown ==
    [][/\ NoDuplicates(connections')
       /\ Len(connections') >= Len(connections)
       /\ SubSeq(connections', 1, Len(connections)) = connections
       /\ Len(connections') <= Len(connections) + 1
       /\ \A c \in Conns : c \in Range(connections') => Built(c)
       /\ \A t \in Threads :
             /\ (Invokes(t) /\ thread'[t].op = "shutdown") =>
                   IF shutdown_raises[thread'[t].conn]
                   THEN thread'[t].ret = Raise("Exception")
                   ELSE Closes(t)
             /\ (thread[t].pc = "for" /\ thread'[t] # thread[t]) =>
                   LET i == thread[t].arg[1]
                   IN IF i > Len(connections)
                      THEN thread'[t].pc = "idle" /\ thread'[t].ret = RetNone
                      ELSE IF shutdown_raises[connections[i]]
                      THEN thread'[t].ret = Raise("Exception")
                      ELSE Closes(t) /\ thread'[t].conn = connections[i]
             /\ Closes(t) =>
                   LET c == thread'[t].conn
                   IN /\ enqueued'[c] = Append(enqueued[c], Sentinel)
                      /\ requests_stream'[c] = Append(requests_stream[c], Sentinel)
                      /\ connections' = connections
             /\ (thread[t].pc = "stop" /\ thread'[t] # thread[t]) =>
                   /\ ~running'[thread[t].conn]
                   /\ connections' = connections
                   /\ IF thread[t].op = "shutdown"
                      THEN thread'[t].pc = "idle" /\ thread'[t].ret = RetNone
                      ELSE thread'[t].pc = "for"
                              /\ thread'[t].arg = <<thread[t].arg[1] + 1>>
       /\ \A c \in Range(connections) :
             /\ Sentinel \notin Range(sent'[c])
             /\ ~running[c] => ~running'[c]
             /\ out_iter[c] = "exhausted" =>
                   /\ out_iter'[c] = "exhausted"
                   /\ sent'[c] = sent[c]
                   /\ Dequeued(c) = FirstSentinel(enqueued[c])
                   /\ requests_stream[c] = AfterClose(c)]_vars

\* C20 witness: connection 1 was shut down twice without error; it is still
\* registered, its dispatcher is stopped, the iteration ended at the first
\* sentinel after yielding nothing and the second sentinel is still queued.
C20_Witness ==
    /\ 1 \in Range(connections)
    /\ ~shutdown_raises[1]
    /\ enqueued[1] = <<Sentinel, Sentinel>>
    /\ out_iter[1] = "exhausted"
    /\ requests_stream[1] = <<Sentinel>>
    /\ ~running[1]
    /\ thread[Caller].ret = RetNone

====
